---- MODULE Spec2Model ----
(***************************************************************************)
(* Model of the custom-field form component                                *)
(* (src/app/components/custom-fields/form.tsx).                            *)
(*                                                                         *)
(* The component keeps two React state hooks (options, selectedType), a    *)
(* number of uncontrolled DOM inputs (name, the two switches) and observes *)
(* the router's navigation state.  React semantics that the model keeps:   *)
(*   - a setState call queues a value; the component function runs again   *)
(*     (Render) some time later and only then do the handlers' closures and *)
(*     the DOM see the new value;                                          *)
(*   - the array bound to `options` in a render's closure is the very      *)
(*     array held by the hook, so Array.prototype.splice in onRemove       *)
(*     mutates it in place, before any re-render.                          *)
(* Optional values (undefined | v) are sequences of length 0 or 1.         *)
(* JavaScript arrays are sequences; JavaScript indexes are 0-based and are *)
(* shifted by one where a sequence is indexed.                             *)
(***************************************************************************)
EXTENDS Integers, Sequences, FiniteSets, TLC

\* ------------------------------------------------------------- bounds
\* longest working option list explored
MaxOptions == 3
\* longest name typed into the name input
MaxNameLen == 3

\* ------------------------------------------------------------- values
Undefined == <<>>
Some(v) == <<v>>
IsDefined(x) == x # <<>>
Get(x) == x[1]

\* strings an option can be (two distinct ones, so duplicates can occur)
OptionStrings == {"a", "b"}
\* characters of a name
NameChars == {"x"}

\* all sequences over S of length at most n
SeqUpTo(S, n) == UNION {[1..k -> S] : k \in 0..n}

\* the Prisma enum CustomFieldType, as keyed in FIELD_TYPE_DESCRIPTION
CustomFieldType == {"TEXT", "OPTION", "BOOLEAN", "DATE", "MULTILINE_TEXT"}

\* value of the hidden organizationId input (useOrganizationId)
organizationId == "org"

VARIABLES
  props,            \* the Props as they were at mount (a record of the values;
                    \* splice on the mounted opts array shows in `options`)
  navigation,       \* useNavigation().state
  options,          \* content of the array bound to `options` in the last render
  selectedType,     \* `selectedType` as bound in the last render
  queuedOptions,    \* argument of the latest setOptions not yet rendered
  queuedType,       \* argument of the latest setSelectedType not yet rendered
  hidden,           \* the hidden options[i] inputs the last render produced
  nameInput,        \* DOM value of the name input
  requiredSwitch,   \* DOM state of the required switch
  activeSwitch,     \* DOM state of the active switch
  title             \* value last written to updateTitleAtom by this form

vars == <<props, navigation, options, selectedType, queuedOptions, queuedType,
          hidden, nameInput, requiredSwitch, activeSwitch, title>>

\* ------------------------------------------------------------- helpers
Min(a, b) == IF a < b THEN a ELSE b
Max(a, b) == IF a > b THEN a ELSE b

\* Array.prototype.splice(start, deleteCount) with no inserted items: the
\* content the array has afterwards (start is 0-based, may be negative or
\* past the end).
SpliceRemovesNext(arr, start, deleteCount) ==
  LET len == Len(arr)
      actualStart == Min(start + 1, len)
      actualDelete == Min(Max(deleteCount, 0), len - actualStart)
  IN  [k \in 1..(len - actualDelete) |->
         IF k <= actualStart THEN arr[k] ELSE arr[k + actualDelete]]
Splice(arr, start, deleteCount) ==
  LET len == Len(arr)
      actualStart == IF start < 0 THEN Max(len + start, 0) ELSE Min(start, len)
      actualDelete == Min(Max(deleteCount, 0), len - actualStart)
  IN  [k \in 1..(len - actualDelete) |->
         IF k <= actualStart THEN arr[k] ELSE arr[k + actualDelete]]

\* [...options, o]
SpreadPrepend(arr, o) == <<o>> \o arr
SpreadAppend(arr, o) == arr \o <<o>>

\* options.map((op, i) => <input type="hidden" name=options[i] value=op />)
HiddenInputsOneBased(opts) ==
  [k \in 1..Len(opts) |-> [index |-> k, value |-> opts[k]]]
HiddenInputs(opts) ==
  [k \in 1..Len(opts) |-> [index |-> k - 1, value |-> opts[k]]]

\* {selectedType === "OPTION" ? <>...hidden inputs...</> : null}
OptionSectionAlways(type, opts) == HiddenInputs(opts)
OptionSection(type, opts) ==
  IF type = "OPTION" THEN HiddenInputs(opts) ELSE <<>>

\* isFormProcessing(navigation.state)
isFormProcessing(state) == state \in {"submitting", "loading"}
disabled == isFormProcessing(navigation)

\* <SelectTrigger disabled={isEdit}>
SelectTriggerNeverDisabled == FALSE
SelectTriggerDisabled == props.isEdit

\* useState(type || "TEXT"), useState(opts || []), defaultValue={name || ""}
InitialType(p) == IF IsDefined(p.type) THEN Get(p.type) ELSE "TEXT"
InitialOptions(p) == IF IsDefined(p.options) THEN Get(p.options) ELSE <<>>
InitialName(p) == IF IsDefined(p.name) THEN Get(p.name) ELSE <<>>

\* defaultChecked={required}
RequiredDefaultChecked(required) == IsDefined(required) /\ Get(required)
\* defaultChecked={active === undefined || active}
ActiveDefaultCheckedNoDefault(active) == IsDefined(active) /\ Get(active)
ActiveDefaultChecked(active) == active = Undefined \/ Get(active)

\* a switch as the DOM holds it
MountSwitch(checked) == [defaultChecked |-> checked, checked |-> checked]
\* the form entry a switch contributes: "on" when checked, none otherwise
SwitchValue(sw) == IF sw.checked THEN Some("on") ELSE Undefined

\* ------------------------------------------------------------- schema
\* name: z.string().min(2, "Name is required")
NameIssuesNoMinimum(val) ==
  IF ~IsDefined(val) THEN {[field |-> "name", code |-> "invalid_type"]}
  ELSE {}
NameIssues(val) ==
  IF ~IsDefined(val) THEN {[field |-> "name", code |-> "invalid_type"]}
  ELSE IF Len(Get(val)) < 2 THEN {[field |-> "name", code |-> "too_small"]}
  ELSE {}

\* type: z.nativeEnum(CustomFieldType)
TypeIssues(val) ==
  IF ~IsDefined(val) THEN {[field |-> "type", code |-> "invalid_type"]}
  ELSE IF Get(val) \notin CustomFieldType
       THEN {[field |-> "type", code |-> "invalid_enum_value"]}
  ELSE {}

\* organizationId: z.string()
OrganizationIdIssues(val) ==
  IF ~IsDefined(val) THEN {[field |-> "organizationId", code |-> "invalid_type"]}
  ELSE {}

\* .transform((val) => (val === "on" ? true : false))
CheckboxTransformTrue(val) == val = Some("true")
CheckboxTransform(val) == val = Some("on")

\* .transform((val) => val || null); null is Undefined here
HelpTextTransform(val) ==
  IF IsDefined(val) /\ Get(val) # "" THEN val ELSE Undefined

\* NewCustomFieldFormSchema.safeParse: the issues of a submission
Errors(p) == NameIssues(p.name) \cup TypeIssues(p.type)
               \cup OrganizationIdIssues(p.organizationId)

\* NewCustomFieldFormSchema.parse: the typed output of a valid submission
Parsed(p) ==
  [name |-> Get(p.name),
   helpText |-> HelpTextTransform(p.helpText),
   type |-> Get(p.type),
   required |-> CheckboxTransform(p.required),
   active |-> CheckboxTransform(p.active),
   organizationId |-> Get(p.organizationId),
   options |-> IF p.options = <<>> THEN Undefined
               ELSE Some([k \in 1..Len(p.options) |-> p.options[k].value])]

\* the form entries the rendered <Form> submits
Payload ==
  [name |-> Some(nameInput),
   helpText |-> Some(""),
   type |-> Some(selectedType),
   required |-> SwitchValue(requiredSwitch),
   active |-> SwitchValue(activeSwitch),
   organizationId |-> Some(organizationId),
   options |-> hidden]

\* ------------------------------------------------------------- rendering
\* the `disabled` each control is rendered with
ControlNames == {"name", "type", "optionBuilder", "required", "active",
                 "helpText", "submit"}
RenderedControls ==
  IF selectedType = "OPTION" THEN ControlNames
  ELSE ControlNames \ {"optionBuilder"}
ControlDisabled(c) == IF c = "optionBuilder" THEN FALSE ELSE disabled
\* {disabled ? <Spinner /> : "Save"}
SubmitChildren == IF disabled THEN "Spinner" ELSE "Save"

\* the value the options hook holds: the latest setOptions argument, or
\* the rendered array when nothing is queued
WorkingOptions ==
  IF IsDefined(queuedOptions) THEN Get(queuedOptions) ELSE options

\* ------------------------------------------------------------- Init
Mount(p) ==
  /\ props = p
  /\ navigation = "idle"
  /\ options = InitialOptions(p)
  /\ selectedType = InitialType(p)
  /\ queuedOptions = Undefined
  /\ queuedType = Undefined
  /\ hidden = OptionSection(InitialType(p), InitialOptions(p))
  /\ nameInput = InitialName(p)
  /\ requiredSwitch = MountSwitch(RequiredDefaultChecked(p.required))
  /\ activeSwitch = MountSwitch(ActiveDefaultChecked(p.active))
  /\ title = Undefined

ValidName == <<"x", "x">>

\* mounts explored for the type selector and the option list
EditorProps ==
  [name : {Some(ValidName)}, helpText : {Undefined}, required : {Undefined},
   type : {Undefined, Some("OPTION"), Some("DATE")}, active : {Undefined},
   options : {Undefined, Some(<<"a", "b">>)}, isEdit : BOOLEAN]

\* mounts explored for the name input and the switches
FieldProps ==
  [name : {Undefined, Some(ValidName)}, helpText : {Undefined},
   required : {Undefined, Some(TRUE), Some(FALSE)}, type : {Undefined},
   active : {Undefined, Some(TRUE), Some(FALSE)},
   options : {Undefined}, isEdit : {FALSE}]

Init == \E p \in EditorProps : Mount(p)
InitFields == \E p \in FieldProps : Mount(p)

\* ------------------------------------------------------------- actions
\* onValueChange={(val) => setSelectedType(val)}
onValueChange ==
  /\ ~disabled
  /\ ~SelectTriggerDisabled
  /\ \E val \in CustomFieldType :
       /\ val # (IF IsDefined(queuedType) THEN Get(queuedType) ELSE selectedType)
       /\ queuedType' = Some(val)
  /\ UNCHANGED <<props, navigation, options, selectedType, queuedOptions,
                 hidden, nameInput, requiredSwitch, activeSwitch, title>>

\* onRemove={(i) => { options.splice(i, 1); setOptions([...options]); }}
\* i is the index of a remove control the last render produced
onRemove(i) ==
  /\ selectedType = "OPTION"
  /\ i \in 0..(Len(hidden) - 1)
  /\ options' = Splice(options, i, 1)
  /\ queuedOptions' = Some(options')
  /\ UNCHANGED <<props, navigation, selectedType, queuedType, hidden,
                 nameInput, requiredSwitch, activeSwitch, title>>

\* onAdd={(o) => setOptions([...options, o])}
onAdd(o) ==
  /\ selectedType = "OPTION"
  /\ Len(options) < MaxOptions
  /\ queuedOptions' = Some(SpreadAppend(options, o))
  /\ UNCHANGED <<props, navigation, options, selectedType, queuedType, hidden,
                 nameInput, requiredSwitch, activeSwitch, title>>

\* React runs CustomFieldForm again with the queued state and commits it
Render ==
  /\ IsDefined(queuedOptions) \/ IsDefined(queuedType)
  /\ options' = WorkingOptions
  /\ selectedType' = IF IsDefined(queuedType) THEN Get(queuedType)
                     ELSE selectedType
  /\ hidden' = OptionSection(selectedType', options')
  /\ queuedOptions' = Undefined
  /\ queuedType' = Undefined
  /\ UNCHANGED <<props, navigation, nameInput, requiredSwitch, activeSwitch,
                 title>>

\* the user edits the name input: onChange={updateTitle}
onChange ==
  /\ ~disabled
  /\ \E n \in SeqUpTo(NameChars, MaxNameLen) :
       /\ n # nameInput
       /\ nameInput' = n
       /\ title' = Some(n)
  /\ UNCHANGED <<props, navigation, options, selectedType, queuedOptions,
                 queuedType, hidden, requiredSwitch, activeSwitch>>

\* the user flips the required switch
ToggleRequired ==
  /\ ~disabled
  /\ requiredSwitch' = [requiredSwitch EXCEPT !.checked = ~@]
  /\ UNCHANGED <<props, navigation, options, selectedType, queuedOptions,
                 queuedType, hidden, nameInput, activeSwitch, title>>

\* the user flips the active switch
ToggleActive ==
  /\ ~disabled
  /\ activeSwitch' = [activeSwitch EXCEPT !.checked = ~@]
  /\ UNCHANGED <<props, navigation, options, selectedType, queuedOptions,
                 queuedType, hidden, nameInput, requiredSwitch, title>>

\* <Button type="submit" disabled={disabled}>: the form validates through
\* zo.ref and, when the schema accepts the entries, the router posts them
Submit ==
  /\ ~disabled
  /\ Errors(Payload) = {}
  /\ navigation' = "submitting"
  /\ UNCHANGED <<props, options, selectedType, queuedOptions, queuedType,
                 hidden, nameInput, requiredSwitch, activeSwitch, title>>

\* the router's submission lifecycle: submitting -> loading -> idle
ActionReturned ==
  /\ navigation = "submitting"
  /\ navigation' = "loading"
  /\ UNCHANGED <<props, options, selectedType, queuedOptions, queuedType,
                 hidden, nameInput, requiredSwitch, activeSwitch, title>>

LoadersReturned ==
  /\ navigation = "loading"
  /\ navigation' = "idle"
  /\ UNCHANGED <<props, options, selectedType, queuedOptions, queuedType,
                 hidden, nameInput, requiredSwitch, activeSwitch, title>>

\* the type selector and the option list editor
Next ==
  \/ onValueChange
  \/ \E i \in 0..MaxOptions : onRemove(i)
  \/ \E o \in OptionStrings : onAdd(o)
  \/ Render
  \/ Submit
  \/ ActionReturned
  \/ LoadersReturned

\* the name input and the switches
NextFields ==
  \/ onChange
  \/ ToggleRequired
  \/ ToggleActive
  \/ Submit
  \/ ActionReturned
  \/ LoadersReturned

Spec == Init /\ [][Next]_vars
SpecFields == InitFields /\ [][NextFields]_vars

\* ------------------------------------------------------------- claims
\* a list with the entry at 0-based position i left out (unchanged when
\* there is no such entry)
RemoveAt(s, i) ==
  IF i < Len(s) THEN SubSeq(s, 1, i) \o SubSeq(s, i + 2, Len(s)) ELSE s

\* C1: whenever the selected type is not OPTION, the rendered payload has
\* no options entries, whatever the working option list holds.
C1_NoOptionsUnlessOptionType ==
  selectedType # "OPTION" => Payload.options = <<>>

\* a non-OPTION type is rendered while the working list, built by onAdd
\* from an empty mount, is non-empty
C1_Witness ==
  /\ selectedType # "OPTION"
  /\ props.options = Undefined
  /\ Len(options) > 0
  /\ Payload.options = <<>>

\* C2: while navigation is submitting or loading every rendered control is
\* disabled and the submit button shows the spinner; while it is idle every
\* control is enabled and the button shows "Save".
C2_DisabledWhileProcessing ==
  /\ navigation \in {"submitting", "loading"} =>
       /\ \A c \in RenderedControls : ControlDisabled(c)
       /\ SubmitChildren = "Spinner"
  /\ navigation = "idle" =>
       /\ \A c \in RenderedControls : ~ControlDisabled(c)
       /\ SubmitChildren = "Save"

\* C3: onRemove(i) with 0 <= i < n on the list of length n > 1 it reads
\* hands setOptions a list of length n-1: the list without entry i, the
\* others in their order.
C3_RemoveExcludesEntry ==
  [][\A i \in 0..MaxOptions :
       (onRemove(i) /\ i < Len(options) /\ Len(options) > 1) =>
         LET r == Get(queuedOptions')
         IN  /\ Len(r) = Len(options) - 1
             /\ \A k \in 1..Len(r) :
                  r[k] = options[IF k <= i THEN k ELSE k + 1]]_vars

\* three options were rendered and a removal left two of them queued
C3_Witness ==
  /\ Len(hidden) = 3
  /\ Len(options) = 2
  /\ queuedOptions = Some(options)

\* C4: onAdd(o) on the list of length n it reads hands setOptions a list of
\* length n+1 that ends in o and starts with the n prior entries in order,
\* also when o is already in the list.
C4_AddAppends ==
  [][\A o \in OptionStrings :
       onAdd(o) =>
         LET r == Get(queuedOptions')
         IN  /\ Len(r) = Len(options) + 1
             /\ r[Len(r)] = o
             /\ \A k \in 1..Len(options) : r[k] = options[k]]_vars

\* an option equal to an existing one was appended
C4_Witness ==
  /\ options = <<"a">>
  /\ queuedOptions = Some(<<"a", "a">>)

\* C5: mounted with isEdit, no type change is ever queued and the type
\* entry of the payload is the type the form was mounted with.
C5_TypeLockedInEdit ==
  props.isEdit =>
    /\ queuedType = Undefined
    /\ Payload.type = (IF IsDefined(props.type) THEN props.type
                       ELSE Some("TEXT"))

\* an edit form mounted with type OPTION has been edited and submitted
C5_Witness ==
  /\ props.isEdit
  /\ props.type = Some("OPTION")
  /\ Len(options) = 3
  /\ navigation = "submitting"
  /\ Payload.type = Some("OPTION")

\* C6: a name shorter than 2 characters, the empty one included, gets the
\* minimum-length issue on the name field and no other field gets an issue.
C6_NameMinLength ==
  Len(nameInput) < 2 =>
    Errors(Payload) = {[field |-> "name", code |-> "too_small"]}

\* the user has emptied the name input
C6_Witness ==
  /\ nameInput = <<>>
  /\ title = Some(<<>>)
  /\ Errors(Payload) = {[field |-> "name", code |-> "too_small"]}

\* C7: required and active parse to true exactly when their switch is
\* checked (entry "on"); an absent entry or any other string parses to false.
C7_CheckboxEncoding ==
  /\ Parsed(Payload).required = requiredSwitch.checked
  /\ Parsed(Payload).active = activeSwitch.checked
  /\ \A v \in {Undefined, Some("on"), Some("off"), Some("true"), Some("")} :
       CheckboxTransform(v) = (v = Some("on"))

\* the required switch was switched on and the active switch off
C7_Witness ==
  /\ requiredSwitch.checked /\ ~requiredSwitch.defaultChecked
  /\ ~activeSwitch.checked /\ activeSwitch.defaultChecked
  /\ Parsed(Payload).required /\ ~Parsed(Payload).active

\* C8: mounted without `active` the active switch is checked by default, so
\* left as mounted it parses to true; mounted with `active` the default is
\* that value.
C8_ActiveDefault ==
  /\ props.active = Undefined => activeSwitch.defaultChecked
  /\ IsDefined(props.active) =>
       activeSwitch.defaultChecked = Get(props.active)
  /\ (props.active = Undefined
        /\ activeSwitch.checked = activeSwitch.defaultChecked) =>
       Parsed(Payload).active

\* a form mounted without `active` was submitted with the switch untouched
C8_Witness ==
  /\ props.active = Undefined
  /\ activeSwitch.checked
  /\ navigation = "submitting"
  /\ Parsed(Payload).active

\* C9: with type OPTION rendered and no option update waiting for a render,
\* there is one hidden field per entry of the option list, with indexes
\* 0..n-1 and the i-th entry as the value at index i.
C9_HiddenFieldsMatch ==
  (selectedType = "OPTION" /\ queuedOptions = Undefined) =>
    /\ Len(hidden) = Len(options)
    /\ \A k \in 1..Len(options) :
         hidden[k] = [index |-> k - 1, value |-> options[k]]

\* mounted with a, b: a was removed and b added, and the result rendered
C9_Witness ==
  /\ selectedType = "OPTION"
  /\ queuedOptions = Undefined
  /\ props.options = Some(<<"a", "b">>)
  /\ options = <<"b", "b">>
  /\ Len(hidden) = 2

\* C10: every add or remove event leaves the working option list equal to
\* the event applied to the working list as the previous event left it,
\* also when no render came between the two.
C10_NoEditLost ==
  [][/\ \A o \in OptionStrings :
          onAdd(o) => WorkingOptions' = Append(WorkingOptions, o)
     /\ \A i \in 0..MaxOptions :
          onRemove(i) => WorkingOptions' = RemoveAt(WorkingOptions, i)]_vars

====
